---- MODULE Spec2Model ----
(***************************************************************************)
(* Model of generate_slooze_pdf.py: the SloozePDF renderer (a subclass of  *)
(* fpdf's FPDF) and the start-up / save path of the script.               *)
(*                                                                         *)
(* Lengths are millimetres (FPDF() defaults: A4 portrait, unit mm), line   *)
(* widths are tenths of a millimetre.  The cursor is (x, y); the number of  *)
(* lines a text wraps into is an input of each block.  Texts are           *)
(* sequences of strings, one character each in the samples.               *)
(*                                                                         *)
(* `from fpdf import FPDF` finds whichever fpdf package is installed; the  *)
(* packages differ in where multi_cell leaves the cursor, so the package   *)
(* is a field of the FPDF state, chosen when the script starts.  An        *)
(* exception raised inside a call is kept in the field err: the rest of    *)
(* the call is skipped and the script ends with the traceback.             *)
(*                                                                         *)
(* ip = 0: the driver calls the blocks in any order; ip >= 1: the driver   *)
(* is create_slooze_documentation itself and ip is the index of its next   *)
(* call in Script.                                                         *)
(***************************************************************************)
EXTENDS Integers, Sequences, FiniteSets, TLC

VARIABLES pc, fpdfInstalled, stdout, stderr, exitCode, pdf, blk, ip

vars == <<pc, fpdfInstalled, stdout, stderr, exitCode, pdf, blk, ip>>

(***************************************************************************)
(* Bounds of the model                                                     *)
(***************************************************************************)
MaxPages == 3
MaxLines == 2

(***************************************************************************)
(* Page geometry and the literals of the renderer                          *)
(***************************************************************************)
PageW == 210
PageH == 297
TopMargin == 10
LeftMargin == 10
RightMargin == 10
BottomMargin == 20
PageBreakTrigger == PageH - BottomMargin
ContentWidth == PageW - LeftMargin - RightMargin
CMargin == 1
DefaultColWidth == 40
BoxHeight == 25
BoxAdvance == 28

Black == <<0, 0, 0>>
Accent == <<233, 69, 96>>
BodyGray == <<51, 51, 51>>
HeaderFill == <<248, 249, 250>>
White == <<255, 255, 255>>
Bullet == <<"*">>

(***************************************************************************)
(* The fpdf packages.  "legacy" is PyFPDF (pip install fpdf) or an fpdf2   *)
(* without new_x / new_y: multi_cell returns the cursor to the left        *)
(* margin.  "fpdf2" is an fpdf2 with new_x / new_y, the package the script *)
(* names: multi_cell leaves the cursor at the right edge of its cell       *)
(* (new_x = RIGHT) and raises FPDFException when its width holds no        *)
(* character.                                                              *)
(***************************************************************************)
Libs == {"legacy", "fpdf2"}

NoSpace ==
    "fpdf.errors.FPDFException: Not enough horizontal space to render a single character"

IndexError == "IndexError: list index out of range"

(***************************************************************************)
(* FPDF state after SloozePDF() and set_auto_page_break(True, 20)          *)
(***************************************************************************)
NewPDF ==
    [lib |-> "fpdf2", err |-> "",
     page |-> 0, x |-> LeftMargin, y |-> 0, lasth |-> 0,
     font |-> [family |-> "", style |-> "", size |-> 12],
     tc |-> Black, fc |-> Black, dc |-> Black, lw |-> 2,
     hdr |-> <<>>, ftr |-> <<>>, auto |-> FALSE, prims |-> <<>>,
     stamps |-> <<>>]

NoBlock == [kind |-> "none", y0 |-> 0, page0 |-> 0, arg |-> <<>>]

(***************************************************************************)
(* Style setters and cursor moves of FPDF                                  *)
(***************************************************************************)
\* no exception is under way
Ok(s) == s.err = ""

\* raise e: the statements after it, up to the end of the call, do not run
Raise(s, e) == IF Ok(s) THEN [s EXCEPT !.err = e] ELSE s

SetFont(s, fam, sty, sz) ==
    IF ~Ok(s) THEN s
    ELSE [s EXCEPT !.font = [family |-> fam, style |-> sty, size |-> sz]]

SetTextColor(s, c) == IF ~Ok(s) THEN s ELSE [s EXCEPT !.tc = c]

SetFillColor(s, c) == IF ~Ok(s) THEN s ELSE [s EXCEPT !.fc = c]

SetDrawColor(s, c) == IF ~Ok(s) THEN s ELSE [s EXCEPT !.dc = c]

SetLineWidth(s, w) == IF ~Ok(s) THEN s ELSE [s EXCEPT !.lw = w]

\* set_y(y): a negative y is measured from the bottom of the page; x goes
\* back to the left margin
SetY(s, v) ==
    IF ~Ok(s) THEN s
    ELSE [s EXCEPT !.y = IF v >= 0 THEN v ELSE PageH + v, !.x = LeftMargin]

\* set_xy(x, y): set_y(y), then set_x(x)
SetXY(s, x, v) == IF ~Ok(s) THEN s ELSE [SetY(s, v) EXCEPT !.x = x]

\* ln(h): down by h, back to the left margin
Ln(s, h) == IF ~Ok(s) THEN s ELSE [s EXCEPT !.y = @ + h, !.x = LeftMargin]

\* ln(): advance by the height of the last cell
LnLast(s) == Ln(s, s.lasth)

\* get_string_width(t): two units per character stand for the font metrics
GetStringWidth(t) == 2 * Len(t)

(***************************************************************************)
(* Drawing primitives.  A primitive is logged with the page and y it lands *)
(* on and the style in force; tag = <<role, row, col>> names its place in  *)
(* the block that emits it.                                                *)
(***************************************************************************)
Prim(s, op, y, w, h, txt, border, fill, tag) ==
    [op |-> op, page |-> s.page, y |-> y, w |-> w, h |-> h, txt |-> txt,
     border |-> border, fill |-> fill,
     font |-> s.font, tc |-> s.tc, fc |-> s.fc, dc |-> s.dc, lw |-> s.lw,
     role |-> tag[1], row |-> tag[2], col |-> tag[3]]

\* line(x1, y1, x2, y2): no page-break check
Line(s, x1, y1, x2, y2, tag) ==
    IF ~Ok(s) THEN s
    ELSE [s EXCEPT !.prims =
            Append(@, Prim(s, "line", y1, x2 - x1, y2 - y1, <<>>, FALSE, FALSE, tag))]

\* rect(x, y, w, h, 'F'): no page-break check
Rect(s, x, y, w, h, tag) ==
    IF ~Ok(s) THEN s
    ELSE [s EXCEPT !.prims =
            Append(@, Prim(s, "rect", y, w, h, <<>>, FALSE, TRUE, tag))]

\* the width of a cell asked for with width w: w = 0 reaches from the
\* cursor to the right margin
CellWidth(s, w) == IF w = 0 THEN PageW - RightMargin - s.x ELSE w

\* The body of cell() after its page-break check: draw, remember the
\* height, move the cursor (ln = 0: to the right of the cell, ln = 1: to
\* the left margin of the next line, ln = 2: below the cell).  A cell with
\* no text, border or fill draws nothing.  The primitive is logged with the
\* width asked for.
PutCell(s, w, h, txt, border, ln, fill, tag) ==
    LET inked == txt # <<>> \/ border \/ fill
        p == Prim(s, "cell", s.y, w, h, txt, border, fill, tag)
    IN  [s EXCEPT !.prims = IF inked THEN Append(@, p) ELSE @,
                  !.lasth = h,
                  !.x = IF ln = 0 THEN @ + CellWidth(s, w)
                        ELSE IF ln = 1 THEN LeftMargin ELSE @,
                  !.y = IF ln = 0 THEN @ ELSE @ + h]

(***************************************************************************)
(* SloozePDF.header and SloozePDF.footer                                   *)
(***************************************************************************)
HeaderBody(s) ==
    LET a == SetTextColor(SetFont(s, "Arial", "B", 9), <<102, 102, 102>>)
        b == PutCell(a, 0, 8, <<"H">>, FALSE, 0, FALSE, <<"header", 0, 0>>)
        c == SetDrawColor(b, <<200, 200, 200>>)
        d == Line(c, 15, c.y + 5, 195, c.y + 5, <<"header", 0, 0>>)
        e == Ln(d, 8)
    IN  [e EXCEPT !.hdr[s.page] = @ + 1]

\* a header() that does not skip the cover
HeaderNoSkip(s) == HeaderBody(s)

Header(s) ==
    IF s.page = 1 THEN s ELSE HeaderBody(s)

\* footer() runs with in_footer set, so its cell makes no page break
Footer(s) ==
    IF s.page = 1 THEN s
    ELSE LET a == SetY(s, -15)
             b == SetTextColor(SetFont(a, "Arial", "I", 8), <<128, 128, 128>>)
             c == PutCell(b, 0, 10, <<"P">>, FALSE, 0, FALSE, <<"footer", 0, 0>>)
         IN  [c EXCEPT !.ftr[s.page] = @ + 1]

(***************************************************************************)
(* FPDF.add_page: footer of the page left, new page, header, and the       *)
(* style of before the call restored after the footer and after the header *)
(***************************************************************************)
RestoreStyle(t, s) ==
    [t EXCEPT !.font = s.font, !.tc = s.tc, !.fc = s.fc, !.dc = s.dc, !.lw = s.lw]

AddPageS(s) ==
    IF ~Ok(s) THEN s ELSE
    LET f == IF s.page > 0 THEN Footer(s) ELSE s
        b == [RestoreStyle(f, s) EXCEPT
                 !.page = s.page + 1, !.x = LeftMargin, !.y = TopMargin,
                 !.hdr = Append(@, 0), !.ftr = Append(@, 0)]
    IN  RestoreStyle(Header(b), s)

\* the automatic page break of cell(): add_page() with x kept, remembered
\* in auto
AutoBreak(s) == [AddPageS(s) EXCEPT !.auto = TRUE, !.x = s.x]

\* cell(w, h, txt, border, ln, align, fill): automatic page break first
Cell(s, w, h, txt, border, ln, fill, tag) ==
    IF ~Ok(s) THEN s
    ELSE LET t == IF s.y + h > PageBreakTrigger THEN AutoBreak(s) ELSE s
         IN  PutCell(t, w, h, txt, border, ln, fill, tag)

\* The statements of a loop run in order: the state s that the iterations
\* so far have left is computed before the rest of the loop, e, goes on
\* from it.
After(s, e) == IF s.page >= 0 THEN e ELSE s

\* the n wrapped lines of a multi_cell, one below the other from the x
\* the call started at, each with its own page-break check
RECURSIVE MultiCellLines(_, _, _, _, _, _, _)
MultiCellLines(s, w, h, txt, n, fill, tag) ==
    IF n = 0 THEN s
    ELSE MultiCellLines(Cell(s, w, h, txt, FALSE, 2, fill, tag),
                        w, h, txt, n - 1, fill, tag)

\* The fpdf2 package raises when the text width of the cell, its width
\* less the two cell margins, is narrower than a character.
TooNarrow(s, w) ==
    s.lib = "fpdf2" /\ CellWidth(s, w) - 2 * CMargin < GetStringWidth(<<"m">>)

\* multi_cell(w, h, txt, fill=fill): n wrapped lines, the cursor ending
\* below the last line, at the left margin (legacy) or at the right edge of
\* the cell (fpdf2, new_x = RIGHT)
MultiCellFill(s, w, h, txt, n, fill, tag) ==
    IF ~Ok(s) THEN s
    ELSE IF TooNarrow(s, w) THEN Raise(s, NoSpace)
    ELSE LET r == MultiCellLines(s, w, h, txt, n, fill, tag)
         IN  [r EXCEPT !.x = IF s.lib = "fpdf2" THEN s.x + CellWidth(s, w)
                             ELSE LeftMargin]

\* multi_cell(w, h, txt)
MultiCell(s, w, h, txt, n, tag) == MultiCellFill(s, w, h, txt, n, FALSE, tag)

(***************************************************************************)
(* Text helpers                                                            *)
(***************************************************************************)
HasColon(t) == \E i \in 1..Len(t) : t[i] = ":"

\* index of the first ':' of a text that has one
FirstColon(t) ==
    CHOOSE i \in 1..Len(t) : t[i] = ":" /\ \A j \in 1..(i - 1) : t[j] # ":"

\* item.split(':', 1)
SplitColon(t) ==
    <<SubSeq(t, 1, FirstColon(t) - 1), SubSeq(t, FirstColon(t) + 1, Len(t))>>

Digit == <<"0", "1", "2", "3", "4", "5", "6", "7", "8", "9">>

\* the decimal digits of a natural number, as f'{i}' formats it
RECURSIVE IntToStr(_)
IntToStr(i) ==
    IF i < 10 THEN <<Digit[i + 1]>>
    ELSE IntToStr(i \div 10) \o <<Digit[(i % 10) + 1]>>

(***************************************************************************)
(* The content blocks of SloozePDF                                         *)
(***************************************************************************)
\* a chapter_title whose level-1 branch forgets the gap under the rule
ChapterTitleNoGap(s, title, level) ==
    IF level = 1 THEN
        LET a == SetTextColor(SetFont(s, "Arial", "B", 16), <<26, 26, 46>>)
            b == Cell(a, 0, 12, title, FALSE, 1, FALSE, <<"title", 0, 0>>)
            c == SetLineWidth(SetDrawColor(b, Accent), 5)
        IN  Line(c, 15, c.y, 195, c.y, <<"underline", 0, 0>>)
    ELSE IF level = 2 THEN
        LET a == SetTextColor(SetFont(s, "Arial", "B", 13), <<22, 33, 62>>)
            b == Cell(a, 0, 10, title, FALSE, 1, FALSE, <<"title", 0, 0>>)
        IN  Ln(b, 2)
    ELSE
        LET a == SetTextColor(SetFont(s, "Arial", "B", 11), BodyGray)
            b == Cell(a, 0, 8, title, FALSE, 1, FALSE, <<"title", 0, 0>>)
        IN  Ln(b, 1)

ChapterTitle(s, title, level) ==
    IF level = 1 THEN
        LET a == SetTextColor(SetFont(s, "Arial", "B", 16), <<26, 26, 46>>)
            b == Cell(a, 0, 12, title, FALSE, 1, FALSE, <<"title", 0, 0>>)
            c == SetLineWidth(SetDrawColor(b, Accent), 5)
            d == Line(c, 15, c.y, 195, c.y, <<"underline", 0, 0>>)
        IN  Ln(d, 5)
    ELSE IF level = 2 THEN
        LET a == SetTextColor(SetFont(s, "Arial", "B", 13), <<22, 33, 62>>)
            b == Cell(a, 0, 10, title, FALSE, 1, FALSE, <<"title", 0, 0>>)
        IN  Ln(b, 2)
    ELSE
        LET a == SetTextColor(SetFont(s, "Arial", "B", 11), BodyGray)
            b == Cell(a, 0, 8, title, FALSE, 1, FALSE, <<"title", 0, 0>>)
        IN  Ln(b, 1)

\* body: [txt, lines], lines being the number of lines txt wraps into
ChapterBody(s, body) ==
    LET a == SetTextColor(SetFont(s, "Arial", "", 10), BodyGray)
        b == MultiCell(a, 0, 6, body.txt, body.lines, <<"text", 0, 0>>)
    IN  LnLast(b)

\* one item of bullet_list, rendered as item number k of the list
BulletItem(s, item, bold_prefix, k) ==
    IF bold_prefix /\ HasColon(item.txt) THEN
        LET parts == SplitColon(item.txt)
            a == Cell(s, 5, 0, <<>>, FALSE, 0, FALSE, <<"indent", k, 0>>)
            b == Cell(a, 5, 6, Bullet, FALSE, 0, FALSE, <<"bullet", k, 0>>)
            c == SetFont(b, "Arial", "B", 10)
            d == Cell(c, GetStringWidth(parts[1] \o <<":", " ">>), 6,
                      parts[1] \o <<":">>, FALSE, 0, FALSE, <<"label", k, 0>>)
            e == SetFont(d, "Arial", "", 10)
        IN  MultiCell(e, 0, 6, parts[2], item.lines, <<"text", k, 0>>)
    ELSE
        LET a == Cell(s, 5, 0, <<>>, FALSE, 0, FALSE, <<"indent", k, 0>>)
            b == Cell(a, 5, 6, Bullet, FALSE, 0, FALSE, <<"bullet", k, 0>>)
        IN  MultiCell(b, 0, 6, item.txt, item.lines, <<"text", k, 0>>)

RECURSIVE BulletItems(_, _, _, _)
BulletItems(s, items, bold_prefix, k) ==
    IF k > Len(items) \/ ~Ok(s) THEN s
    ELSE After(s, BulletItems(BulletItem(s, items[k], bold_prefix, k),
                              items, bold_prefix, k + 1))

BulletList(s, items, bold_prefix) ==
    LET a == SetTextColor(SetFont(s, "Arial", "", 10), BodyGray)
    IN  Ln(BulletItems(a, items, bold_prefix, 1), 2)

\* item number i of numbered_list: enumerate(items, 1)
NumberedItem(s, item, i) ==
    LET a == Cell(s, 5, 0, <<>>, FALSE, 0, FALSE, <<"indent", i, 0>>)
        b == Cell(a, 10, 6, IntToStr(i) \o <<".">>, FALSE, 0, FALSE, <<"marker", i, 0>>)
    IN  MultiCell(b, 0, 6, item.txt, item.lines, <<"text", i, 0>>)

RECURSIVE NumberedItems(_, _, _)
NumberedItems(s, items, i) ==
    IF i > Len(items) \/ ~Ok(s) THEN s
    ELSE After(s, NumberedItems(NumberedItem(s, items[i], i), items, i + 1))

NumberedList(s, items) ==
    LET a == SetTextColor(SetFont(s, "Arial", "", 10), BodyGray)
    IN  Ln(NumberedItems(a, items, 1), 2)

\* a key_finding_box that leaves the cursor where the body text ended
KeyFindingBoxFlow(s, title, content) ==
    LET start_y == s.y
        a == SetLineWidth(SetDrawColor(s, Accent), 10)
        b == Line(a, 15, start_y, 15, start_y + BoxHeight, <<"rule", 0, 0>>)
        c == SetFillColor(b, <<250, 250, 250>>)
        d == Rect(c, 17, start_y, 178, BoxHeight, <<"background", 0, 0>>)
        e == SetTextColor(SetFont(SetXY(d, 20, start_y + 3), "Arial", "B", 10), Accent)
        f == Cell(e, 0, 6, title, FALSE, 1, FALSE, <<"boxtitle", 0, 0>>)
        g == SetTextColor(SetFont(SetXY(f, 20, start_y + 10), "Arial", "", 10), BodyGray)
    IN  MultiCell(g, 170, 5, content.txt, content.lines, <<"boxbody", 0, 0>>)

KeyFindingBox(s, title, content) ==
    LET start_y == s.y
        a == SetLineWidth(SetDrawColor(s, Accent), 10)
        b == Line(a, 15, start_y, 15, start_y + BoxHeight, <<"rule", 0, 0>>)
        c == SetFillColor(b, <<250, 250, 250>>)
        d == Rect(c, 17, start_y, 178, BoxHeight, <<"background", 0, 0>>)
        e == SetTextColor(SetFont(SetXY(d, 20, start_y + 3), "Arial", "B", 10), Accent)
        f == Cell(e, 0, 6, title, FALSE, 1, FALSE, <<"boxtitle", 0, 0>>)
        g == SetTextColor(SetFont(SetXY(f, 20, start_y + 10), "Arial", "", 10), BodyGray)
        h == MultiCell(g, 170, 5, content.txt, content.lines, <<"boxbody", 0, 0>>)
    IN  SetY(h, start_y + BoxAdvance)

InfoBox(s, title, items) ==
    LET a == SetTextColor(SetFont(s, "Arial", "B", 11), <<22, 33, 62>>)
        b == Cell(a, 0, 8, title, FALSE, 1, FALSE, <<"title", 0, 0>>)
    IN  BulletList(b, items, TRUE)

\* default widths that divide the content width equally
ColWidthsEqualDivision(headers, col_widths) ==
    IF col_widths = <<>> THEN [i \in 1..Len(headers) |-> ContentWidth \div Len(headers)]
    ELSE col_widths[1]

\* col_widths is <<>> for None and <<widths>> for a list of widths
ColWidths(headers, col_widths) ==
    IF col_widths = <<>> THEN [i \in 1..Len(headers) |-> DefaultColWidth]
    ELSE col_widths[1]

RECURSIVE HeaderCells(_, _, _, _)
HeaderCells(s, headers, widths, i) ==
    IF i > Len(headers) \/ ~Ok(s) THEN s
    ELSE IF i > Len(widths) THEN Raise(s, IndexError)
    ELSE HeaderCells(Cell(s, widths[i], 8, headers[i], TRUE, 0, TRUE, <<"th", 0, i>>),
                     headers, widths, i + 1)

\* data cells drawn without their border
RECURSIVE RowCellsNoBorder(_, _, _, _, _)
RowCellsNoBorder(s, row, widths, r, i) ==
    IF i > Len(row) \/ ~Ok(s) THEN s
    ELSE IF i > Len(widths) THEN Raise(s, IndexError)
    ELSE RowCellsNoBorder(Cell(s, widths[i], 7, row[i], FALSE, 0, FALSE, <<"td", r, i>>),
                          row, widths, r, i + 1)

\* data cells that grow with their column: cell i is 6 + i high
RECURSIVE RowCellsUneven(_, _, _, _, _)
RowCellsUneven(s, row, widths, r, i) ==
    IF i > Len(row) \/ ~Ok(s) THEN s
    ELSE IF i > Len(widths) THEN Raise(s, IndexError)
    ELSE RowCellsUneven(Cell(s, widths[i], 6 + i, row[i], TRUE, 0, FALSE, <<"td", r, i>>),
                        row, widths, r, i + 1)

\* the cells of data row number r: one per element of the row, each with
\* the width of its column; a row with more elements than there are widths
\* raises IndexError at the first cell without a width
RECURSIVE RowCells(_, _, _, _, _)
RowCells(s, row, widths, r, i) ==
    IF i > Len(row) \/ ~Ok(s) THEN s
    ELSE IF i > Len(widths) THEN Raise(s, IndexError)
    ELSE RowCells(Cell(s, widths[i], 7, row[i], TRUE, 0, FALSE, <<"td", r, i>>),
                  row, widths, r, i + 1)

RECURSIVE DataRows(_, _, _, _)
DataRows(s, data, widths, r) ==
    IF r > Len(data) \/ ~Ok(s) THEN s
    ELSE After(s, DataRows(LnLast(RowCells(s, data[r], widths, r, 1)),
                           data, widths, r + 1))

CreateTable(s, headers, data, col_widths) ==
    LET widths == ColWidths(headers, col_widths)
        a == SetTextColor(SetFillColor(SetFont(s, "Arial", "B", 9), HeaderFill), BodyGray)
        b == LnLast(HeaderCells(a, headers, widths, 1))
        c == SetFillColor(SetFont(b, "Arial", "", 9), White)
    IN  Ln(DataRows(c, data, widths, 1), 3)

(***************************************************************************)
(* Inputs: the literal content handed to the renderer                      *)
(***************************************************************************)
Titles == {<<"T">>, <<"T", "w", "o">>}

Levels == {1, 2, 3, 4}

\* a text with the number of lines it wraps into
Bodies == {[txt |-> <<"p">>, lines |-> n] : n \in 1..MaxLines}

ItemA == [txt |-> <<"a">>, lines |-> 1]

ItemLong == [txt |-> <<"a", "b">>, lines |-> 2]

ItemKV == [txt |-> <<"k", ":", "v">>, lines |-> 1]

ItemKVW == [txt |-> <<"k", ":", "v", ":", "w">>, lines |-> 2]

ItemLists ==
    {<<ItemA>>, <<ItemKVW>>, <<ItemKV, ItemA>>, <<ItemA, ItemKV>>,
     <<ItemLong, ItemKV, ItemA>>}

H == <<"h">>

D == <<"d">>

\* [headers, data, col_widths]; col_widths <<>> is None.  The tables of the
\* script have one cell per header in every row and pass their widths;
\* create_table also takes no widths, rows shorter than the headers and
\* rows longer than the headers.
Tables ==
    {[headers |-> <<H>>, data |-> <<>>, col_widths |-> <<>>],
     [headers |-> <<H, H>>, data |-> <<<<D, D>>, <<D, D>>>>, col_widths |-> <<<<80, 80>>>>],
     [headers |-> <<H, H, H>>, data |-> <<<<D, D, D>>>>, col_widths |-> <<>>],
     [headers |-> <<H, H>>, data |-> <<<<D, D>>>>, col_widths |-> <<>>],
     [headers |-> <<H, H>>, data |-> <<<<D, D>>, <<D, D>>, <<D, D>>>>,
      col_widths |-> <<<<50, 65>>>>],
     [headers |-> <<H, H, H>>, data |-> <<<<D>>, <<D, D, D>>>>,
      col_widths |-> <<<<50, 65, 55>>>>],
     [headers |-> <<H, H>>, data |-> <<<<D, D>>, <<D, D, D>>>>, col_widths |-> <<>>]}

(***************************************************************************)
(* create_slooze_documentation: the clock, the cover, the table of         *)
(* contents, the code line of section 8 and the closing line               *)
(***************************************************************************)
\* datetime.now(): sample values
Clocks ==
    {[year |-> 2026, month |-> 10, day |-> 30, hour |-> 9, minute |-> 5, second |-> 7],
     [year |-> 2027, month |-> 1, day |-> 1, hour |-> 0, minute |-> 0, second |-> 0]}

MonthName ==
    <<"January", "February", "March", "April", "May", "June", "July",
      "August", "September", "October", "November", "December">>

\* now.strftime('%B %Y')
StrfMonthYear(now) == <<MonthName[now.month], " ">> \o IntToStr(now.year)

\* two digits, zero padded
Pad2(n) == IF n < 10 THEN <<"0">> \o IntToStr(n) ELSE IntToStr(n)

\* the date string of the document information dictionary,
\* 'D:' + now.strftime('%Y%m%d%H%M%S')
PdfDate(now) ==
    <<"D:">> \o IntToStr(now.year) \o Pad2(now.month) \o Pad2(now.day) \o
    Pad2(now.hour) \o Pad2(now.minute) \o Pad2(now.second)

\* stamps lists the fields of the document whose value comes from the clock
Stamp(s, field, value) ==
    IF ~Ok(s) THEN s ELSE
    [s EXCEPT !.stamps = Append(@, [field |-> field, value |-> value])]

\* the first part of the cover, down to the accent line: absolute
\* positions, set with set_xy
CoverTop(s) ==
    LET a == Rect(SetFillColor(s, <<26, 26, 46>>), 0, 0, PageW, PageH, <<"cover", 1, 0>>)
        b == Rect(SetFillColor(a, Accent), 0, 289, PageW, 8, <<"cover", 2, 0>>)
        c == Rect(SetFillColor(SetXY(b, 65, 60), Accent), 65, 60, 80, 10, <<"cover", 3, 0>>)
        d == SetXY(SetTextColor(SetFont(c, "Arial", "B", 10), White), 65, 63)
        e == Cell(d, 80, 6, <<"DATA SCIENCE CHALLENGE">>, FALSE, 0, FALSE, <<"cover", 4, 0>>)
        f == SetTextColor(SetFont(SetXY(e, 15, 100), "Arial", "B", 28), White)
        g == Cell(f, 180, 15, <<"Inventory Optimization &">>, FALSE, 1, FALSE, <<"cover", 5, 0>>)
        h == Cell(g, 180, 15, <<"Supply Chain Analysis">>, FALSE, 1, FALSE, <<"cover", 6, 0>>)
        i == SetTextColor(SetFont(SetXY(h, 15, 145), "Arial", "", 14), <<200, 200, 200>>)
        j == Cell(i, 180, 10, <<"Slooze Take-Home Challenge">>, FALSE, 1, FALSE, <<"cover", 7, 0>>)
        k == SetLineWidth(SetDrawColor(j, Accent), 10)
    IN  Line(k, 85, 175, 125, 175, <<"cover", 8, 0>>)

\* the cover page after its add_page(); the last meta line is the month and
\* year of the clock
Cover(s, now) ==
    LET a == SetTextColor(SetFont(SetXY(CoverTop(s), 15, 200), "Arial", "", 11), <<180, 180, 180>>)
        b == Cell(a, 180, 8, <<"Technical Documentation">>, FALSE, 1, FALSE, <<"cover", 9, 0>>)
        c == Cell(b, 180, 8, <<"Comprehensive Analysis Report">>, FALSE, 1, FALSE, <<"cover", 10, 0>>)
        d == Cell(c, 180, 8, StrfMonthYear(now), FALSE, 1, FALSE, <<"date", 11, 0>>)
    IN  Stamp(d, "cover date line", StrfMonthYear(now))

\* toc_items: the entries of sections 1..9 and of the subsections listed,
\* with the page numbers written in the source
TocItems ==
    <<[item |-> <<"1", ".">>, page |-> 3],
      [item |-> <<"2", ".">>, page |-> 4],
      [item |-> <<" ", " ", " ", "2", ".", "1">>, page |-> 4],
      [item |-> <<" ", " ", " ", "2", ".", "2">>, page |-> 4],
      [item |-> <<"3", ".">>, page |-> 5],
      [item |-> <<"4", ".">>, page |-> 6],
      [item |-> <<" ", " ", " ", "4", ".", "1">>, page |-> 6],
      [item |-> <<" ", " ", " ", "4", ".", "2">>, page |-> 7],
      [item |-> <<" ", " ", " ", "4", ".", "3">>, page |-> 8],
      [item |-> <<" ", " ", " ", "4", ".", "4">>, page |-> 8],
      [item |-> <<" ", " ", " ", "4", ".", "5">>, page |-> 9],
      [item |-> <<"5", ".">>, page |-> 10],
      [item |-> <<"6", ".">>, page |-> 12],
      [item |-> <<"7", ".">>, page |-> 13],
      [item |-> <<"8", ".">>, page |-> 14],
      [item |-> <<"9", ".">>, page |-> 15]>>

\* item.startswith('   ')
StartsWithIndent(t) == Len(t) >= 3 /\ SubSeq(t, 1, 3) = <<" ", " ", " ">>

\* The characters str.strip() removes are the 29 with str.isspace().  A
\* character up to U+00FF is the one-character string itself (vertical tab,
\* U+001C..U+001F, U+0085 and U+00A0 written as the raw characters); a
\* character above U+00FF, which a string literal cannot hold, is the
\* string of its code point name, "U+1680" for U+1680.
Whitespace ==
    {"\t", "\n", "\f", "\r", " ", "", "", "", "", "",
     "", " ",
     "U+1680", "U+2000", "U+2001", "U+2002", "U+2003", "U+2004", "U+2005",
     "U+2006", "U+2007", "U+2008", "U+2009", "U+200A", "U+2028", "U+2029",
     "U+202F", "U+205F", "U+3000"}

RECURSIVE LStrip(_)
LStrip(t) == IF t # <<>> /\ Head(t) \in Whitespace THEN LStrip(Tail(t)) ELSE t

RECURSIVE RStrip(_)
RStrip(t) ==
    IF t # <<>> /\ t[Len(t)] \in Whitespace THEN RStrip(SubSeq(t, 1, Len(t) - 1)) ELSE t

\* item.strip()
Strip(t) == RStrip(LStrip(t))

\* the loop over toc_items, from entry number k on
RECURSIVE TocLines(_, _, _)
TocLines(s, items, k) ==
    IF k > Len(items) \/ ~Ok(s) THEN s
    ELSE LET e == items[k]
             a == IF StartsWithIndent(e.item)
                  THEN SetFont(Cell(s, 10, 0, <<>>, FALSE, 0, FALSE, <<"indent", k, 0>>),
                               "Arial", "", 10)
                  ELSE SetFont(s, "Arial", "B", 11)
             b == Cell(a, 150, 7, Strip(e.item), FALSE, 0, FALSE, <<"toc", k, 1>>)
             c == Cell(b, 0, 7, IntToStr(e.page), FALSE, 1, FALSE, <<"toc", k, 2>>)
         IN  After(s, TocLines(c, items, k + 1))

Toc(s, items) ==
    TocLines(SetTextColor(SetFont(s, "Arial", "", 11), BodyGray), items, 1)

\* multi_cell(0, 6, txt, fill=True): n filled lines
FilledLines(s, h, txt, n, tag) == MultiCellFill(s, 0, h, txt, n, TRUE, tag)

\* the pip command of section 8
CodeBlock(s, body) ==
    LET a == SetFillColor(SetFont(s, "Courier", "", 9), <<245, 245, 245>>)
    IN  Ln(FilledLines(a, 6, body.txt, body.lines, <<"code", 0, 0>>), 3)

\* a closing line drawn where the cursor stands
EndLineInFlow(s) ==
    LET a == SetTextColor(SetFont(s, "Arial", "I", 10), <<128, 128, 128>>)
    IN  Cell(a, 0, 10, <<"--- End of Documentation ---">>, FALSE, 0, FALSE, <<"endline", 0, 0>>)

\* the closing line: set_y(-30), then a cell that leaves the cursor on its
\* line
EndLine(s) ==
    LET a == SetTextColor(SetFont(SetY(s, -30), "Arial", "I", 10), <<128, 128, 128>>)
    IN  Cell(a, 0, 10, <<"--- End of Documentation ---">>, FALSE, 0, FALSE, <<"endline", 0, 0>>)

(***************************************************************************)
(* Script: the calls of create_slooze_documentation in their order.  A     *)
(* text is given by the number of lines it wraps into at its width in      *)
(* Arial 10 (Helvetica metrics); a section title by its number.            *)
(***************************************************************************)
P(n) == [txt |-> <<"p">>, lines |-> n]

KV(n) == [txt |-> <<"k", ":", "v">>, lines |-> n]

Tbl(cols, rows, widths) ==
    [op |-> "table",
     headers |-> [i \in 1..cols |-> H],
     data |-> [r \in 1..rows |-> [i \in 1..cols |-> D]],
     col_widths |-> <<widths>>]

CoverPage ==
    <<[op |-> "add_page"],
      [op |-> "cover"]>>

TocPage ==
    <<[op |-> "add_page"],
      [op |-> "title", title |-> <<"T">>, level |-> 1],
      [op |-> "toc"]>>

Section1 ==
    <<[op |-> "add_page"],
      [op |-> "title", title |-> <<"1", ".">>, level |-> 1],
      [op |-> "body", body |-> P(4)],
      [op |-> "title", title |-> <<"T">>, level |-> 2],
      [op |-> "bullets", items |-> <<KV(1), KV(1), KV(1), KV(1)>>, bold_prefix |-> TRUE],
      [op |-> "box", title |-> <<"T">>, content |-> P(2)],
      [op |-> "title", title |-> <<"T">>, level |-> 2],
      Tbl(2, 4, <<80, 80>>)>>

Section2 ==
    <<[op |-> "add_page"],
      [op |-> "title", title |-> <<"2", ".">>, level |-> 1],
      [op |-> "title", title |-> <<"2", ".", "1">>, level |-> 2],
      [op |-> "body", body |-> P(2)],
      [op |-> "bullets", items |-> <<P(1), P(1), P(1), P(1)>>, bold_prefix |-> TRUE],
      [op |-> "title", title |-> <<"2", ".", "2">>, level |-> 2],
      Tbl(3, 3, <<50, 65, 55>>),
      [op |-> "title", title |-> <<"T">>, level |-> 2],
      [op |-> "numbered", items |-> <<P(1), P(1), P(1), P(1)>>]>>

Section3 ==
    <<[op |-> "add_page"],
      [op |-> "title", title |-> <<"3", ".">>, level |-> 1],
      [op |-> "title", title |-> <<"T">>, level |-> 2],
      Tbl(4, 6, <<55, 30, 30, 55>>),
      [op |-> "title", title |-> <<"T">>, level |-> 2],
      [op |-> "info_box", title |-> <<"T">>, items |-> <<KV(1), KV(1), KV(1), KV(1), KV(1)>>]>>

Section4 ==
    <<[op |-> "add_page"],
      [op |-> "title", title |-> <<"4", ".">>, level |-> 1],
      [op |-> "title", title |-> <<"4", ".", "1">>, level |-> 2],
      [op |-> "body", body |-> P(2)],
      [op |-> "title", title |-> <<"T">>, level |-> 3],
      [op |-> "numbered", items |-> <<P(1), P(1), P(1), P(1), P(1), P(1)>>],
      [op |-> "title", title |-> <<"4", ".", "2">>, level |-> 2],
      [op |-> "body", body |-> P(1)],
      [op |-> "title", title |-> <<"T">>, level |-> 3],
      Tbl(3, 3, <<30, 80, 50>>),
      [op |-> "title", title |-> <<"4", ".", "3">>, level |-> 2],
      [op |-> "body", body |-> P(2)],
      [op |-> "title", title |-> <<"4", ".", "4">>, level |-> 2],
      [op |-> "body", body |-> P(1)],
      [op |-> "body", body |-> P(1)],
      Tbl(3, 3, <<40, 35, 75>>),
      [op |-> "title", title |-> <<"4", ".", "5">>, level |-> 2],
      Tbl(4, 4, <<45, 35, 35, 25>>)>>

Section5 ==
    <<[op |-> "add_page"],
      [op |-> "title", title |-> <<"5", ".">>, level |-> 1],
      [op |-> "title", title |-> <<"T">>, level |-> 2],
      Tbl(5, 3, <<25, 30, 25, 35, 30>>),
      [op |-> "title", title |-> <<"T">>, level |-> 2],
      Tbl(4, 5, <<15, 85, 35, 25>>),
      [op |-> "title", title |-> <<"T">>, level |-> 2],
      Tbl(4, 5, <<45, 35, 35, 25>>),
      [op |-> "box", title |-> <<"T">>, content |-> P(2)],
      [op |-> "title", title |-> <<"T">>, level |-> 2],
      Tbl(4, 4, <<40, 35, 35, 30>>),
      [op |-> "box", title |-> <<"T">>, content |-> P(2)]>>

Section6 ==
    <<[op |-> "add_page"],
      [op |-> "title", title |-> <<"6", ".">>, level |-> 1],
      [op |-> "title", title |-> <<"T">>, level |-> 2],
      [op |-> "numbered", items |-> <<P(1), P(1), P(1)>>],
      [op |-> "title", title |-> <<"T">>, level |-> 2],
      [op |-> "numbered", items |-> <<P(1), P(1), P(1), P(1)>>],
      [op |-> "title", title |-> <<"T">>, level |-> 2],
      [op |-> "numbered", items |-> <<P(1), P(1), P(1)>>]>>

Section7 ==
    <<[op |-> "add_page"],
      [op |-> "title", title |-> <<"7", ".">>, level |-> 1],
      [op |-> "title", title |-> <<"T">>, level |-> 2],
      [op |-> "numbered", items |-> <<P(1), P(1), P(1), P(1)>>],
      [op |-> "title", title |-> <<"T">>, level |-> 2],
      [op |-> "numbered", items |-> <<P(1), P(1), P(1)>>],
      [op |-> "title", title |-> <<"T">>, level |-> 2],
      Tbl(3, 3, <<45, 55, 50>>)>>

Section8 ==
    <<[op |-> "add_page"],
      [op |-> "title", title |-> <<"8", ".">>, level |-> 1],
      [op |-> "title", title |-> <<"T">>, level |-> 2],
      [op |-> "bullets", items |-> <<P(1), P(1), P(1)>>, bold_prefix |-> TRUE],
      [op |-> "title", title |-> <<"T">>, level |-> 2],
      [op |-> "code", body |-> P(1)],
      [op |-> "title", title |-> <<"T">>, level |-> 2],
      [op |-> "numbered", items |-> <<P(1), P(1), P(1), P(1), P(1), P(1)>>],
      [op |-> "title", title |-> <<"T">>, level |-> 2],
      [op |-> "bullets", items |-> <<P(1), P(1), P(1), P(1), P(1)>>, bold_prefix |-> TRUE]>>

Section9 ==
    <<[op |-> "add_page"],
      [op |-> "title", title |-> <<"9", ".">>, level |-> 1],
      [op |-> "body", body |-> P(3)],
      [op |-> "body", body |-> P(3)],
      [op |-> "title", title |-> <<"T">>, level |-> 2],
      [op |-> "bullets", items |-> <<P(1), P(1), P(1), P(1), P(1)>>, bold_prefix |-> TRUE],
      [op |-> "box", title |-> <<"T">>, content |-> P(3)]>>

Closing ==
    <<[op |-> "end_line"]>>

Script ==
    CoverPage \o TocPage \o Section1 \o Section2 \o Section3 \o Section4 \o
    Section5 \o Section6 \o Section7 \o Section8 \o Section9 \o Closing

(***************************************************************************)
(* The script: module import, __main__, create_slooze_documentation        *)
(***************************************************************************)
\* the FPDF state of SloozePDF() with package lib installed
Installed(lib) == [NewPDF EXCEPT !.lib = lib]

Init ==
    /\ pc = "import"
    /\ fpdfInstalled \in BOOLEAN
    /\ stdout = <<>>
    /\ stderr = <<>>
    /\ exitCode = -1
    /\ pdf \in {Installed(lib) : lib \in Libs}
    /\ blk = NoBlock
    /\ ip = 0

\* line 21, from fpdf import FPDF at module level: an ImportError here is
\* uncaught, the interpreter prints the traceback to stderr and exits 1
ImportModule ==
    /\ pc = "import"
    /\ IF fpdfInstalled
       THEN /\ pc' = "main"
            /\ UNCHANGED <<stderr, exitCode>>
       ELSE /\ pc' = "crashed"
            /\ stderr' = Append(stderr, "ModuleNotFoundError: No module named 'fpdf'")
            /\ exitCode' = 1
    /\ UNCHANGED <<fpdfInstalled, stdout, pdf, blk, ip>>

\* the __main__ block: banner, then the guarded import
MainGuard ==
    /\ pc = "main"
    /\ IF fpdfInstalled
       THEN /\ stdout' = Append(stdout, "SLOOZE DATA SCIENCE CHALLENGE - PDF DOCUMENTATION GENERATOR")
            /\ pc' = "render"
            /\ UNCHANGED exitCode
       ELSE /\ stdout' = stdout \o <<"SLOOZE DATA SCIENCE CHALLENGE - PDF DOCUMENTATION GENERATOR",
                                      "ERROR: fpdf2 is not installed.",
                                      "Please run: pip install fpdf2">>
            /\ pc' = "exited"
            /\ exitCode' = 1
    /\ UNCHANGED <<fpdfInstalled, stderr, pdf, blk, ip>>

\* the log of primitives is kept per call
Begin(s) == [s EXCEPT !.prims = <<>>]

\* The end of a call that left the FPDF state r: an exception raised in it
\* is caught nowhere, so the interpreter prints the traceback and exits 1.
Propagate(r) ==
    IF Ok(r)
    THEN UNCHANGED <<pc, stderr, exitCode>>
    ELSE /\ pc' = "crashed"
         /\ stderr' = Append(stderr, r.err)
         /\ exitCode' = 1

\* One call on the document: r is the FPDF state the call leaves.  The
\* closing line is the last call before output(), as in the script.
Render(kind, arg, r) ==
    /\ pc = "render"
    /\ ip = 0
    /\ blk.kind # "end_line"
    /\ r.page <= MaxPages
    /\ pdf' = r
    /\ blk' = [kind |-> kind, y0 |-> pdf.y, page0 |-> pdf.page, arg |-> arg]
    /\ Propagate(r)
    /\ UNCHANGED <<fpdfInstalled, stdout, ip>>

AddPage ==
    Render("add_page", <<>>, AddPageS(Begin(pdf)))

TitleCall(ts, ls) ==
    /\ pdf.page >= 1
    /\ \E t \in ts, l \in ls :
          Render("chapter_title", [title |-> t, level |-> l],
                 ChapterTitle(Begin(pdf), t, l))

BodyCall(bs) ==
    /\ pdf.page >= 1
    /\ \E b \in bs :
          Render("chapter_body", [body |-> b], ChapterBody(Begin(pdf), b))

BulletListCall(lists, flags) ==
    /\ pdf.page >= 1
    /\ \E items \in lists, bp \in flags :
          Render("bullet_list", [items |-> items, bold_prefix |-> bp],
                 BulletList(Begin(pdf), items, bp))

NumberedListCall(lists) ==
    /\ pdf.page >= 1
    /\ \E items \in lists :
          Render("numbered_list", [items |-> items], NumberedList(Begin(pdf), items))

BoxCall(ts, bs) ==
    /\ pdf.page >= 1
    /\ \E t \in ts, c \in bs :
          Render("key_finding_box", [title |-> t, content |-> c],
                 KeyFindingBox(Begin(pdf), t, c))

InfoBoxCall(ts, lists) ==
    /\ pdf.page >= 1
    /\ \E t \in ts, items \in lists :
          Render("info_box", [title |-> t, items |-> items],
                 InfoBox(Begin(pdf), t, items))

TableCall(tbs) ==
    /\ pdf.page >= 1
    /\ \E tb \in tbs :
          Render("create_table", tb,
                 CreateTable(Begin(pdf), tb.headers, tb.data, tb.col_widths))

\* FPDF.close, run by output(): a document without a page gets one, and
\* the footer is drawn on the last page
Close(s) ==
    Footer(IF s.page = 0 THEN AddPageS(s) ELSE s)

\* FPDF.output builds the document after close(): its information
\* dictionary carries /CreationDate, the clock at that moment
PutInfo(s, now) == Stamp(s, "/CreationDate", PdfDate(now))

\* an output() whose write error is swallowed, the script carrying on
OutputSwallowsError ==
    /\ pc = "render"
    /\ ip \in {0, Len(Script) + 1}
    /\ pdf.page >= 1
    /\ \E now \in Clocks : pdf' = PutInfo(Close(Begin(pdf)), now)
    /\ \E written \in BOOLEAN :
          blk' = [kind |-> "output", y0 |-> pdf.y, page0 |-> pdf.page,
                  arg |-> [written |-> written]]
    /\ pc' = "saved"
    /\ UNCHANGED <<fpdfInstalled, stdout, stderr, exitCode, ip>>

\* pdf.output(output_filename): close() finishes the last page, then the
\* file is written; the write may fail (directory not writable, disk
\* full), the exception is not caught anywhere, so the interpreter prints
\* the traceback and exits 1
Output ==
    /\ pc = "render"
    /\ ip \in {0, Len(Script) + 1}
    /\ pdf.page >= 1
    /\ \E now \in Clocks : pdf' = PutInfo(Close(Begin(pdf)), now)
    /\ \E written \in BOOLEAN :
          /\ blk' = [kind |-> "output", y0 |-> pdf.y, page0 |-> pdf.page,
                     arg |-> [written |-> written]]
          /\ IF written
             THEN /\ pc' = "saved"
                  /\ UNCHANGED <<stderr, exitCode>>
             ELSE /\ pc' = "crashed"
                  /\ stderr' = Append(stderr, "OSError: cannot write the output file")
                  /\ exitCode' = 1
    /\ UNCHANGED <<fpdfInstalled, stdout, ip>>

\* f"  Pages: {pdf.page_no()}"
PagesLine(s) == "Pages: " \o ToString(s.page)

\* the success report, the last statements of create_slooze_documentation,
\* which then returns the file name
Report ==
    /\ pc = "saved"
    /\ stdout' = stdout \o <<"PDF GENERATED SUCCESSFULLY!", "Filename:",
                              PagesLine(pdf), "Generated:">>
    /\ pc' = "returned"
    /\ UNCHANGED <<fpdfInstalled, stderr, exitCode, pdf, blk, ip>>

\* the last statement of __main__, after create_slooze_documentation has
\* returned; the interpreter then ends with exit code 0
MainEnd ==
    /\ pc = "returned"
    /\ stdout' = Append(stdout, "Documentation saved to:")
    /\ pc' = "done"
    /\ exitCode' = 0
    /\ UNCHANGED <<fpdfInstalled, stderr, pdf, blk, ip>>

(***************************************************************************)
(* Spec: the script with the six kinds of content block, in any order,     *)
(* and the closing line as the last call before output()                   *)
(***************************************************************************)
DoChapterTitle == TitleCall({<<"T">>}, {1, 2, 3})

DoChapterBody == BodyCall(Bodies)

DoBulletList == BulletListCall({<<ItemKV, ItemLong>>}, {TRUE})

DoNumberedList == NumberedListCall({<<ItemA, ItemLong>>})

DoKeyFindingBox == BoxCall({<<"T">>}, Bodies)

DoCreateTable ==
    TableCall({[headers |-> <<H, H>>, data |-> <<<<D, D>>, <<D, D>>>>,
                col_widths |-> <<<<80, 80>>>>],
               [headers |-> <<H, H, H>>, data |-> <<<<D, D, D>>>>, col_widths |-> <<>>]})

DoEndLine ==
    /\ pdf.page >= 1
    /\ Render("end_line", <<>>, EndLine(Begin(pdf)))

Next ==
    \/ ImportModule
    \/ MainGuard
    \/ AddPage
    \/ DoChapterTitle
    \/ DoChapterBody
    \/ DoBulletList
    \/ DoNumberedList
    \/ DoKeyFindingBox
    \/ DoCreateTable
    \/ DoEndLine
    \/ Output
    \/ Report
    \/ MainEnd

Spec == Init /\ [][Next]_vars

(***************************************************************************)
(* SpecText: the script with titles, paragraphs, lists of every sample and  *)
(* info boxes                                                              *)
(***************************************************************************)
TextChapterTitle == TitleCall(Titles, Levels)

TextBulletList == BulletListCall(ItemLists, BOOLEAN)

TextNumberedList == NumberedListCall(ItemLists)

DoInfoBox == InfoBoxCall({<<"T">>}, {<<ItemKV>>})

NextText ==
    \/ ImportModule
    \/ MainGuard
    \/ AddPage
    \/ TextChapterTitle
    \/ DoChapterBody
    \/ TextBulletList
    \/ TextNumberedList
    \/ DoInfoBox
    \/ Output
    \/ Report
    \/ MainEnd

SpecText == Init /\ [][NextText]_vars

(***************************************************************************)
(* SpecTable: the script with titles and tables of every sample            *)
(***************************************************************************)
TableCreateTable == TableCall(Tables)

NextTable ==
    \/ ImportModule
    \/ MainGuard
    \/ AddPage
    \/ DoChapterTitle
    \/ TableCreateTable
    \/ Output
    \/ Report
    \/ MainEnd

SpecTable == Init /\ [][NextTable]_vars

(***************************************************************************)
(* SpecDoc: create_slooze_documentation call by call                       *)
(***************************************************************************)
InitDoc ==
    /\ pc = "import"
    /\ fpdfInstalled \in BOOLEAN
    /\ stdout = <<>>
    /\ stderr = <<>>
    /\ exitCode = -1
    /\ pdf \in {Installed(lib) : lib \in Libs}
    /\ blk = NoBlock
    /\ ip = 1

\* the next call of the script is of kind op
AtOp(op) == pc = "render" /\ ip \in 1..Len(Script) /\ Script[ip].op = op

\* the next call of the script: r is the FPDF state it leaves
DocRender(kind, arg, r) ==
    /\ pdf' = r
    /\ blk' = [kind |-> kind, y0 |-> pdf.y, page0 |-> pdf.page, arg |-> arg]
    /\ ip' = ip + 1
    /\ Propagate(r)
    /\ UNCHANGED <<fpdfInstalled, stdout>>

DocAddPage ==
    /\ AtOp("add_page")
    /\ DocRender("add_page", <<>>, AddPageS(Begin(pdf)))

DocCover ==
    /\ AtOp("cover")
    /\ \E now \in Clocks :
          DocRender("cover", [now |-> now], Cover(Begin(pdf), now))

DocToc ==
    /\ AtOp("toc")
    /\ DocRender("toc", [items |-> TocItems], Toc(Begin(pdf), TocItems))

DocChapterTitle ==
    /\ AtOp("title")
    /\ LET e == Script[ip]
       IN  DocRender("chapter_title", [title |-> e.title, level |-> e.level],
                     ChapterTitle(Begin(pdf), e.title, e.level))

DocChapterBody ==
    /\ AtOp("body")
    /\ LET e == Script[ip]
       IN  DocRender("chapter_body", [body |-> e.body], ChapterBody(Begin(pdf), e.body))

DocBulletList ==
    /\ AtOp("bullets")
    /\ LET e == Script[ip]
       IN  DocRender("bullet_list", [items |-> e.items, bold_prefix |-> e.bold_prefix],
                     BulletList(Begin(pdf), e.items, e.bold_prefix))

DocNumberedList ==
    /\ AtOp("numbered")
    /\ LET e == Script[ip]
       IN  DocRender("numbered_list", [items |-> e.items],
                     NumberedList(Begin(pdf), e.items))

DocKeyFindingBox ==
    /\ AtOp("box")
    /\ LET e == Script[ip]
       IN  DocRender("key_finding_box", [title |-> e.title, content |-> e.content],
                     KeyFindingBox(Begin(pdf), e.title, e.content))

DocInfoBox ==
    /\ AtOp("info_box")
    /\ LET e == Script[ip]
       IN  DocRender("info_box", [title |-> e.title, items |-> e.items],
                     InfoBox(Begin(pdf), e.title, e.items))

DocCreateTable ==
    /\ AtOp("table")
    /\ LET e == Script[ip]
       IN  DocRender("create_table",
                     [headers |-> e.headers, data |-> e.data, col_widths |-> e.col_widths],
                     CreateTable(Begin(pdf), e.headers, e.data, e.col_widths))

DocCodeBlock ==
    /\ AtOp("code")
    /\ LET e == Script[ip]
       IN  DocRender("code", [body |-> e.body], CodeBlock(Begin(pdf), e.body))

DocEndLine ==
    /\ AtOp("end_line")
    /\ DocRender("end_line", <<>>, EndLine(Begin(pdf)))

NextDoc ==
    \/ ImportModule
    \/ MainGuard
    \/ DocAddPage
    \/ DocCover
    \/ DocToc
    \/ DocChapterTitle
    \/ DocChapterBody
    \/ DocBulletList
    \/ DocNumberedList
    \/ DocKeyFindingBox
    \/ DocInfoBox
    \/ DocCreateTable
    \/ DocCodeBlock
    \/ DocEndLine
    \/ Output
    \/ Report
    \/ MainEnd

SpecDoc == InitDoc /\ [][NextDoc]_vars

(***************************************************************************)
(* Vocabulary of the properties                                            *)
(***************************************************************************)
Chrome == {"header", "footer"}

\* the primitives of the last call, without the page chrome drawn by an
\* automatic page break inside it
BlockPrims == SelectSeq(pdf.prims, LAMBDA p : p.role \notin Chrome)

ByRole(role) == SelectSeq(pdf.prims, LAMBDA p : p.role = role)

ByRoleRow(role, row) == SelectSeq(pdf.prims, LAMBDA p : p.role = role /\ p.row = row)

Finalized == pc \in {"saved", "returned", "done"}

ContentKinds ==
    {"chapter_title", "chapter_body", "bullet_list", "numbered_list",
     "key_finding_box", "create_table"}

OnePage(ps) == \A i, j \in 1..Len(ps) : ps[i].page = ps[j].page

\* C1: once the document is finalized, page 1 carries no header and no
\* footer and every later page carries exactly one header and one footer.
C1_ChromeOnAllButCover ==
    Finalized =>
        /\ Len(pdf.hdr) = pdf.page /\ Len(pdf.ftr) = pdf.page
        /\ \A p \in 1..pdf.page :
              /\ p = 1 => pdf.hdr[p] = 0 /\ pdf.ftr[p] = 0
              /\ p >= 2 => pdf.hdr[p] = 1 /\ pdf.ftr[p] = 1

\* a finalized document of three pages, the cover started by add_page()
\* and a later page by an automatic page break
C1_Witness ==
    /\ Finalized
    /\ pdf.page = 3
    /\ pdf.auto
    /\ pdf.hdr = <<0, 1, 1>>
    /\ pdf.ftr = <<0, 1, 1>>

\* C2: no content block's top edge (the y of its first drawing primitive)
\* lies below the page-break trigger, page height minus 20.
C2_TopEdgeAboveTrigger ==
    (blk.kind \in ContentKinds /\ BlockPrims # <<>>) =>
        BlockPrims[1].y <= PageBreakTrigger

\* C3: the primitives of one block land on one page; a list may break
\* between items and a table between rows, but a title with its underline,
\* a paragraph, a list item, a callout box and a table row are never split.
C3_BlockOnOnePage ==
    /\ blk.kind \in {"chapter_title", "chapter_body", "key_finding_box"} =>
          OnePage(BlockPrims)
    /\ blk.kind \in {"bullet_list", "numbered_list", "create_table"} =>
          \A i, j \in 1..Len(BlockPrims) :
              BlockPrims[i].row = BlockPrims[j].row =>
                  BlockPrims[i].page = BlockPrims[j].page

\* C10: when fpdf is absent the run ends with a nonzero exit code, before
\* any page is started, with the remediation line on standard output.
C10_MissingDependencyReported ==
    (~fpdfInstalled /\ pc \in {"crashed", "exited"}) =>
        /\ exitCode # 0
        /\ pdf.page = 0
        /\ \E i \in 1..Len(stdout) : stdout[i] = "Please run: pip install fpdf2"

\* the y advance expected of a title of a level
TitleAdvance(level) == IF level = 1 THEN 17 ELSE IF level = 2 THEN 12 ELSE 9

\* C4: after chapter_title the cursor is below the y the title text was
\* drawn at by 17 (level 1), 12 (level 2) or 9 (any other level), whatever
\* the text and whatever came before, on the page of the title text.
C4_TitleAdvanceByLevel ==
    blk.kind = "chapter_title" =>
        /\ Len(ByRole("title")) = 1
        /\ pdf.page = ByRole("title")[1].page
        /\ pdf.y - ByRole("title")[1].y = TitleAdvance(blk.arg.level)
        /\ TitleAdvance(1) > TitleAdvance(2) /\ TitleAdvance(2) > TitleAdvance(3)

\* a level-1 title with the longer text, moved to a new page by the
\* automatic page break
C4_Witness ==
    /\ blk.kind = "chapter_title"
    /\ blk.arg.level = 1
    /\ blk.arg.title = <<"T", "w", "o">>
    /\ pdf.page = blk.page0 + 1
    /\ pdf.y = 35

\* the text of t before its first ':'
RECURSIVE BeforeColon(_)
BeforeColon(t) ==
    IF t = <<>> \/ Head(t) = ":" THEN <<>> ELSE <<Head(t)>> \o BeforeColon(Tail(t))

\* the text of t after its first ':'
RECURSIVE AfterColon(_)
AfterColon(t) ==
    IF t = <<>> THEN <<>> ELSE IF Head(t) = ":" THEN Tail(t) ELSE AfterColon(Tail(t))

AllRegular(ps, txt) ==
    \A i \in 1..Len(ps) : ps[i].font.style = "" /\ ps[i].txt = txt

\* C5: in bullet_list, an item with a ':' and bold_prefix set has the text
\* up to and including the first ':' drawn bold and the rest drawn regular
\* on the same line; any other item is drawn regular as a whole, also after
\* an item with a bold label.
C5_BoldLabelOnly ==
    blk.kind = "bullet_list" =>
        \A k \in 1..Len(blk.arg.items) :
            LET item == blk.arg.items[k]
                labels == ByRoleRow("label", k)
                texts == ByRoleRow("text", k)
                bullets == ByRoleRow("bullet", k)
            IN  /\ Len(texts) = item.lines
                /\ Len(bullets) = 1 /\ bullets[1].font.style = ""
                /\ IF blk.arg.bold_prefix /\ HasColon(item.txt)
                   THEN /\ Len(labels) = 1
                        /\ labels[1].font.style = "B"
                        /\ labels[1].txt = BeforeColon(item.txt) \o <<":">>
                        /\ AllRegular(texts, AfterColon(item.txt))
                        /\ texts[1].page = labels[1].page
                        /\ texts[1].y = labels[1].y
                   ELSE /\ Len(labels) = 0
                        /\ AllRegular(texts, item.txt)

ExpectedMarkers ==
    <<<<"1", ".">>, <<"2", ".">>, <<"3", ".">>, <<"4", ".">>>>

\* C6: numbered_list emits one marker per item, '1.', '2.', ... in input
\* order without gaps, starting at 1 in every call, page break or not.
C6_MarkersSequential ==
    blk.kind = "numbered_list" =>
        LET ms == ByRole("marker")
            n == Len(blk.arg.items)
        IN  /\ n <= Len(ExpectedMarkers)
            /\ Len(ms) = n
            /\ \A i \in 1..n :
                  /\ ms[i].txt = ExpectedMarkers[i]
                  /\ ms[i].row = i
                  /\ Len(ByRoleRow("text", i)) = blk.arg.items[i].lines
                  /\ \A j \in 1..Len(ByRoleRow("text", i)) :
                        ByRoleRow("text", i)[j].txt = blk.arg.items[i].txt

\* C7 as stated: create_table draws Len(headers) header cells and, for each
\* of the Len(data) rows, Len(headers) data cells; every cell has a border;
\* header cells are filled with the header fill colour, data cells are not
\* filled.
C7_TableShape ==
    blk.kind = "create_table" =>
        LET nc == Len(blk.arg.headers)
            nr == Len(blk.arg.data)
            ths == ByRole("th")
            tds == ByRole("td")
        IN  /\ Len(ths) = nc
            /\ \A i \in 1..nc :
                  /\ ths[i].col = i /\ ths[i].txt = blk.arg.headers[i]
                  /\ ths[i].border /\ ths[i].fill /\ ths[i].fc = HeaderFill
            /\ Len(tds) = nr * nc
            /\ \A r \in 1..nr :
                  /\ Len(ByRoleRow("td", r)) = nc
                  /\ \A i \in 1..nc :
                        /\ ByRoleRow("td", r)[i].col = i
                        /\ ByRoleRow("td", r)[i].txt = blk.arg.data[r][i]
            /\ \A i \in 1..Len(tds) :
                  tds[i].border /\ ~tds[i].fill /\ tds[i].row \in 1..nr

\* the first row of data with more elements than there are widths, 0 when
\* there is none
FirstLongRow(data, widths) ==
    IF \E r \in 1..Len(data) : Len(data[r]) > Len(widths)
    THEN CHOOSE r \in 1..Len(data) :
            /\ Len(data[r]) > Len(widths)
            /\ \A q \in 1..(r - 1) : Len(data[q]) <= Len(widths)
    ELSE 0

\* C7, amended: create_table draws one header cell per header, with a
\* border and the header fill colour, and for each data row one data cell
\* per element of that row, in order, with a border and no fill: Len(row)
\* cells, whatever Len(headers) is.  A row with more elements than there
\* are column widths raises IndexError where the widths run out: the cells
\* drawn up to there stay, no later row is drawn, and the script ends with
\* the traceback.
C7_TableShapePerRow ==
    blk.kind = "create_table" =>
        LET widths == ColWidths(blk.arg.headers, blk.arg.col_widths)
            nc == Len(blk.arg.headers)
            nr == Len(blk.arg.data)
            ths == ByRole("th")
            tds == ByRole("td")
            bad == FirstLongRow(blk.arg.data, widths)
            drawn(r) == IF Len(widths) < nc THEN 0
                        ELSE IF bad = 0 \/ r < bad THEN Len(blk.arg.data[r])
                        ELSE IF r = bad THEN Len(widths)
                        ELSE 0
        IN  /\ Len(ths) = IF Len(widths) < nc THEN Len(widths) ELSE nc
            /\ \A i \in 1..Len(ths) :
                  /\ ths[i].col = i /\ ths[i].txt = blk.arg.headers[i]
                  /\ ths[i].border /\ ths[i].fill /\ ths[i].fc = HeaderFill
            /\ \A r \in 1..nr :
                  /\ Len(ByRoleRow("td", r)) = drawn(r)
                  /\ \A i \in 1..drawn(r) :
                        /\ ByRoleRow("td", r)[i].col = i
                        /\ ByRoleRow("td", r)[i].txt = blk.arg.data[r][i]
            /\ \A i \in 1..Len(tds) :
                  tds[i].border /\ ~tds[i].fill /\ tds[i].row \in 1..nr
            /\ Ok(pdf) <=> (bad = 0 /\ Len(widths) >= nc)
            /\ ~Ok(pdf) => pdf.err = IndexError /\ pc = "crashed" /\ exitCode = 1

\* a table of three columns whose first row has one element and whose
\* second row has three: one data cell, then three
C7_Witness ==
    /\ blk.kind = "create_table"
    /\ Len(blk.arg.headers) = 3
    /\ Len(blk.arg.data[1]) = 1
    /\ Len(ByRoleRow("td", 1)) = 1
    /\ Len(ByRoleRow("td", 2)) = 3
    /\ Ok(pdf)

\* a table whose second row has one element more than there are columns:
\* IndexError after the two cells of that row that have a width
C7_WitnessLongRow ==
    /\ blk.kind = "create_table"
    /\ Len(blk.arg.headers) = 2
    /\ Len(blk.arg.data) = 2
    /\ Len(blk.arg.data[2]) = 3
    /\ Len(ByRoleRow("td", 2)) = 2
    /\ pc = "crashed"

RECURSIVE SumWidths(_)
SumWidths(ps) == IF ps = <<>> THEN 0 ELSE Head(ps).w + SumWidths(Tail(ps))

\* C8 as stated: without col_widths the columns have one width and the
\* widths add up to the content width of the page.
C8_DefaultWidthsFillContent ==
    (blk.kind = "create_table" /\ blk.arg.col_widths = <<>>) =>
        /\ \A i, j \in 1..Len(ByRole("th")) : ByRole("th")[i].w = ByRole("th")[j].w
        /\ SumWidths(ByRole("th")) = ContentWidth

\* C8 amended: without col_widths every column, header and data, is 40
\* wide, so the widths add up to 40 * Len(headers), whatever the content
\* width.
C8_DefaultWidthsFixed ==
    (blk.kind = "create_table" /\ blk.arg.col_widths = <<>>) =>
        /\ \A i \in 1..Len(ByRole("th")) : ByRole("th")[i].w = 40
        /\ \A i \in 1..Len(ByRole("td")) : ByRole("td")[i].w = 40
        /\ SumWidths(ByRole("th")) = 40 * Len(blk.arg.headers)

\* a table of three columns drawn without col_widths
C8_Witness ==
    /\ blk.kind = "create_table"
    /\ blk.arg.col_widths = <<>>
    /\ Len(blk.arg.headers) = 3
    /\ SumWidths(ByRole("th")) = 120

\* C9: key_finding_box called at y0 draws its rule and its background from
\* y0 to y0 + 25 and leaves the cursor at y0 + 28, whatever the body.
C9_BoxFixedHeight ==
    blk.kind = "key_finding_box" =>
        /\ Len(ByRole("rule")) = 1 /\ Len(ByRole("background")) = 1
        /\ ByRole("rule")[1].y = blk.y0 /\ ByRole("rule")[1].h = 25
        /\ ByRole("background")[1].y = blk.y0 /\ ByRole("background")[1].h = 25
        /\ ByRole("rule")[1].page = blk.page0
        /\ ByRole("background")[1].page = blk.page0
        /\ Len(ByRole("boxbody")) = blk.arg.content.lines
        /\ pdf.y = blk.y0 + 28

\* a box whose body wraps into two lines, drawn whole on its page
C9_Witness ==
    /\ blk.kind = "key_finding_box"
    /\ blk.arg.content.lines = 2
    /\ pdf.page = blk.page0
    /\ ByRole("boxbody")[2].y = blk.y0 + 15
    /\ pdf.y = blk.y0 + 28


\* the line of the report for a document of n pages
ExpectedPagesLine ==
    <<"Pages: 1", "Pages: 2", "Pages: 3", "Pages: 4", "Pages: 5">>

InStdout(line) == \E i \in 1..Len(stdout) : stdout[i] = line

\* C11: the success report is on standard output only once output() has
\* written the file, and its page line gives the number of pages of the
\* document; when the write fails the run is over with exit code 1, no
\* report printed and no second attempt at output().
C11_ReportOnlyAfterWrite ==
    /\ InStdout("PDF GENERATED SUCCESSFULLY!") =>
          /\ pc \in {"returned", "done"}
          /\ pc = "returned" => exitCode = -1
          /\ pc = "done" => exitCode = 0 /\ InStdout("Documentation saved to:")
          /\ blk.kind = "output" /\ blk.arg.written
          /\ InStdout(ExpectedPagesLine[Len(pdf.hdr)])
          /\ \A n \in 1..Len(ExpectedPagesLine) :
                InStdout(ExpectedPagesLine[n]) => n = Len(pdf.hdr)
    /\ (blk.kind = "output" /\ ~blk.arg.written) =>
          /\ pc = "crashed" /\ exitCode = 1
          /\ ~InStdout("PDF GENERATED SUCCESSFULLY!")
          /\ ~ENABLED Output /\ ~ENABLED Report /\ ~ENABLED MainEnd
    /\ pc \in {"returned", "done"} => InStdout("PDF GENERATED SUCCESSFULLY!")
    /\ InStdout("Documentation saved to:") => pc = "done"

\* a three-page document reported after a successful write
C11_Witness ==
    /\ pc = "done"
    /\ blk.kind = "output" /\ blk.arg.written
    /\ Len(pdf.hdr) = 3
    /\ InStdout("Pages: 3")

\* a three-page document whose write failed
C11_WitnessFailure ==
    /\ pc = "crashed"
    /\ blk.kind = "output" /\ ~blk.arg.written
    /\ Len(pdf.hdr) = 3

\* a primitive without its text
NoText(p) == [p EXCEPT !.txt = <<>>]

\* the FPDF state without the log of primitives and of stamped fields
Cursor(s) == [s EXCEPT !.prims = <<>>, !.stamps = <<>>]

\* C12: whatever the clock of a run, the cover (the one block that reads
\* the clock) leaves the same cursor, page and style and the same
\* primitives but for the text of one cell, so that the rest of the run is
\* the same; and the finished document holds one field whose value comes
\* from the clock, no more.
C12_ClockInOneField ==
    /\ AtOp("cover") =>
          \A c1, c2 \in Clocks :
              LET r1 == Cover(Begin(pdf), c1)
                  r2 == Cover(Begin(pdf), c2)
              IN  /\ Cursor(r1) = Cursor(r2)
                  /\ Len(r1.prims) = Len(r2.prims)
                  /\ \A i \in 1..Len(r1.prims) :
                        /\ NoText(r1.prims[i]) = NoText(r2.prims[i])
                        /\ r1.prims[i] # r2.prims[i] => r1.prims[i].role = "date"
    /\ (ip >= 1 /\ blk.kind = "output") => Len(pdf.stamps) <= 1

\* C14: a table is drawn in one style whatever was drawn before it.  A
\* table that is the first block of a document finds the draw color and the
\* line width of a new FPDF, black and 0.2 mm; so in every context its cell
\* borders are black and 0.2 mm wide, and its texts and fills are those
\* create_table sets.
C14_StyleSetByBlockAlone ==
    blk.kind = "create_table" =>
        \A i \in 1..Len(BlockPrims) :
            LET p == BlockPrims[i]
            IN  /\ p.font.family = "Arial" /\ p.font.size = 9 /\ p.tc = BodyGray
                /\ p.role = "th" => p.font.style = "B" /\ p.fc = HeaderFill
                /\ p.role = "td" => p.font.style = "" /\ p.fc = White
                /\ p.border => p.dc = NewPDF.dc /\ p.lw = NewPDF.lw

\* C15: the level-1 title of each section listed in the table of contents
\* is drawn on the page the table of contents lists for it.
C15_TocPagesMatchTitles ==
    (blk.kind = "chapter_title" /\ blk.arg.level = 1) =>
        \A k \in 1..Len(TocItems) :
            Strip(TocItems[k].item) = blk.arg.title =>
                /\ Len(ByRole("title")) = 1
                /\ ByRole("title")[1].page = TocItems[k].page

\* the primitives ps lie on one page at one y
OneLine(ps) == \A i, j \in 1..Len(ps) : ps[i].page = ps[j].page /\ ps[i].y = ps[j].y

    /\ pdf.auto
    /\ ByRole("th")[1].page = blk.page0
    /\ ByRoleRow("td", 1)[1].page = blk.page0
    /\ ByRoleRow("td", 3)[2].page = blk.page0 + 1

====
